---------------------------- MODULE Spec2Model ----------------------------
(***************************************************************************)
(* The tag labeler of classifind (src/src/classifind/labeler.py): the      *)
(* regular-expression extractors, modelled character by character, and     *)
(* label_data, the loop that applies them to every audio file and encodes  *)
(* the composers.                                                          *)
(*                                                                         *)
(* A Python str is a sequence of one-character strings; an offset p is a   *)
(* Python offset (0-based): the character at offset p is s[p + 1], and a   *)
(* match with start p and end e is SubSeq(s, p + 1, e).                    *)
(***************************************************************************)
EXTENDS Integers, Sequences, FiniteSets, TLC

VARIABLES files, args, pc, idx, columns, new_row, files_df, exc, calls

vars == <<files, args, pc, idx, columns, new_row, files_df, exc, calls>>

\* Python's None. It differs from every str: its one element is no character.
None == <<"None">>

(***************************************************************************)
(* Characters.                                                             *)
(***************************************************************************)
ToLower ==
    [A |-> "a", B |-> "b", C |-> "c", D |-> "d", E |-> "e", F |-> "f",
     G |-> "g", H |-> "h", I |-> "i", J |-> "j", K |-> "k", L |-> "l",
     M |-> "m", N |-> "n", O |-> "o", P |-> "p", Q |-> "q", R |-> "r",
     S |-> "s", T |-> "t", U |-> "u", V |-> "v", W |-> "w", X |-> "x",
     Y |-> "y", Z |-> "z"]

ToUpper ==
    [a |-> "A", b |-> "B", c |-> "C", d |-> "D", e |-> "E", f |-> "F",
     g |-> "G", h |-> "H", i |-> "I", j |-> "J", k |-> "K", l |-> "L",
     m |-> "M", n |-> "N", o |-> "O", p |-> "P", q |-> "Q", r |-> "R",
     s |-> "S", t |-> "T", u |-> "U", v |-> "V", w |-> "W", x |-> "X",
     y |-> "Y", z |-> "Z"]

\* The characters in code-point order (the order str comparison uses).
CodePoints ==
    <<"\n", " ", "!", "\"", "#", "'", ",", "-", ".",
      "0", "1", "2", "3", "4", "5", "6", "7", "8", "9", ":",
      "A", "B", "C", "D", "E", "F", "G", "H", "I", "J", "K", "L", "M",
      "N", "O", "P", "Q", "R", "S", "T", "U", "V", "W", "X", "Y", "Z", "_",
      "a", "b", "c", "d", "e", "f", "g", "h", "i", "j", "k", "l", "m",
      "n", "o", "p", "q", "r", "s", "t", "u", "v", "w", "x", "y", "z">>

Ord(c) == CHOOSE i \in 1..Len(CodePoints) : CodePoints[i] = c

Digits == {"0", "1", "2", "3", "4", "5", "6", "7", "8", "9"}

IsUpper(c) == c \in DOMAIN ToLower

IsLower(c) == c \in DOMAIN ToUpper

\* str.lower and str.upper of one character
Lower(c) == IF IsUpper(c) THEN ToLower[c] ELSE c

Upper(c) == IF IsLower(c) THEN ToUpper[c] ELSE c

\* \d
IsDigit(c) == c \in Digits

\* \w
IsWord(c) == IsUpper(c) \/ IsLower(c) \/ IsDigit(c) \/ c = "_"

\* \s
IsSpace(c) == c \in {" ", "\n"}

\* . (without re.DOTALL)
IsDot(c) == c # "\n"

(***************************************************************************)
(* Strings.                                                                *)
(***************************************************************************)
Min(S) == CHOOSE x \in S : \A y \in S : x <= y

Max(S) == CHOOSE x \in S : \A y \in S : y <= x

\* s[a:] of Python
SliceFrom(s, a) == SubSeq(s, a + 1, Len(s))

\* str.lower
LowerStr(s) == [k \in 1..Len(s) |-> Lower(s[k])]

\* str.capitalize: the first character in upper case, the rest in lower case
Capitalize(s) == [k \in 1..Len(s) |-> IF k = 1 THEN Upper(s[k]) ELSE Lower(s[k])]

\* sep.join(list)
RECURSIVE Join(_, _)
Join(list, sep) ==
    IF list = <<>> THEN <<>>
    ELSE IF Len(list) = 1 THEN list[1]
    ELSE list[1] \o sep \o Join(Tail(list), sep)

\* no removal of duplicates
FromKeys_KeepAll(list) == list

\* list(dict.fromkeys(list)): the first occurrence of every element, in order
RECURSIVE FromKeys(_)
FromKeys(list) ==
    IF list = <<>> THEN <<>>
    ELSE LET init == FromKeys(SubSeq(list, 1, Len(list) - 1))
             last == list[Len(list)]
         IN IF \E k \in 1..Len(init) : init[k] = last THEN init
            ELSE Append(init, last)

\* s < t of two str (code-point lexicographic order)
RECURSIVE StrLess(_, _)
StrLess(s, t) ==
    IF t = <<>> THEN FALSE
    ELSE IF s = <<>> THEN TRUE
    ELSE IF s[1] = t[1] THEN StrLess(Tail(s), Tail(t))
    ELSE Ord(s[1]) < Ord(t[1])

(***************************************************************************)
(* The re module: matching at an offset gives the end of the match, or -1. *)
(***************************************************************************)
NoMatch == [start |-> -1, end |-> -1]

\* a literal under re.IGNORECASE at offset p
MatchLit(s, p, lit) ==
    /\ p >= 0
    /\ p + Len(lit) <= Len(s)
    /\ \A k \in 1..Len(lit) : Lower(s[p + k]) = Lower(lit[k])

LitEnd(s, p, lit) == IF MatchLit(s, p, lit) THEN p + Len(lit) ELSE -1

\* lit1|lit2|...: the first alternative that matches at p (0: none)
FirstAlt(s, p, alts) ==
    LET ok == {a \in 1..Len(alts) : MatchLit(s, p, alts[a])}
    IN IF ok = {} THEN 0 ELSE Min(ok)

AltEnd(s, p, alts) ==
    LET a == FirstAlt(s, p, alts)
    IN IF a = 0 THEN -1 ELSE p + Len(alts[a])

\* \b at offset p
WordBoundary(s, p) ==
    (p > 0 /\ IsWord(s[p])) # (p < Len(s) /\ IsWord(s[p + 1]))

\* \d+ from offset p: the end of the run of digits (p when there is none)
RECURSIVE DigitsEnd(_, _)
DigitsEnd(s, p) ==
    IF p < Len(s) /\ IsDigit(s[p + 1]) THEN DigitsEnd(s, p + 1) ELSE p

\* .* from offset p: the end of the line
RECURSIVE LineEnd(_, _)
LineEnd(s, p) ==
    IF p < Len(s) /\ IsDot(s[p + 1]) THEN LineEnd(s, p + 1) ELSE p

(***************************************************************************)
(* The patterns. A backslash at the end of a line of a raw string literal  *)
(* stays in the pattern with the line break and the next line's            *)
(* indentation: the alternative that follows it starts with a newline and  *)
(* that many spaces.                                                       *)
(***************************************************************************)
COMPOSER_PATTERN == <<<<"M", "o", "z", "a", "r", "t">>, <<"B", "e", "e", "t", "h", "o", "v", "e", "n">>, <<"B", "a", "c", "h">>>>

COMPOSITION_PATTERN ==
    <<<<"S", "o", "n", "a", "t", "a">>, <<"C", "o", "n", "c", "e", "r", "t", "o">>, <<"S", "t", "r", "i", "n", "g">>, <<"Q", "u", "a", "r", "t", "e", "t">>, <<"Q", "u", "i", "n", "t", "e", "t">>,
      <<"S", "y", "m", "p", "h", "o", "n", "y">>, <<"T", "r", "i", "o">>, <<"S", "u", "i", "t", "e">>, <<"P", "r", "e", "l", "u", "d", "e">>, <<"F", "u", "g", "u", "e">>,
      <<"\n", " ", " ", " ", " ", "V", "a", "r", "i", "a", "t", "i", "o", "n", "s">>, <<"O", "v", "e", "r", "t", "u", "r", "e">>, <<"R", "o", "n", "d", "o">>, <<"F", "a", "n", "t", "a", "s", "y">>, <<"O", "p", "e", "r", "a">>,
      <<"D", "i", "v", "e", "r", "m", "e", "n", "t", "o">>, <<"S", "e", "r", "e", "n", "a", "d", "e">>, <<"B", "a", "l", "l", "e", "t">>>>

INSTRUMENT_NAMES ==
    <<<<"P", "i", "a", "n", "o">>, <<"K", "e", "y", "b", "o", "a", "r", "d">>, <<"O", "r", "g", "a", "n">>, <<"G", "u", "i", "t", "a", "r">>, <<"V", "i", "o", "l", "i", "n">>, <<"V", "i", "o", "l", "a">>,
      <<"C", "e", "l", "l", "o">>, <<"\n", " ", " ", " ", " ", "D", "o", "u", "b", "l", "e", " ", "B", "a", "s", "s">>, <<"P", "i", "c", "c", "o", "l", "o">>, <<"F", "l", "u", "t", "e">>, <<"O", "b", "o", "e">>,
      <<"C", "l", "a", "r", "i", "n", "e", "t">>, <<"B", "a", "s", "s", "o", "o", "n">>, <<"T", "r", "u", "m", "p", "e", "t">>, <<"\n", " ", " ", " ", " ", "H", "o", "r", "n">>, <<"T", "r", "o", "m", "b", "o", "n", "e">>,
      <<"T", "u", "b", "a">>, <<"S", "a", "x", "o", "p", "h", "o", "n", "e">>, <<"T", "i", "m", "p", "a", "n", "i">>, <<"H", "a", "r", "p">>, <<"R", "e", "c", "o", "r", "d", "e", "r">>,
      <<"B", "a", "g", "p", "i", "p", "e", "s">>, <<"U", "k", "u", "l", "e", "l", "e">>>>

WORKNUMBER_PREFIXES == <<<<"K">>, <<"K", "V">>, <<"O", "P">>, <<"O", "p", "u", "s">>, <<"B", "W", "V">>>>

MOVEMENT_ORDINALS ==
    <<<<"F", "i", "r", "s", "t">>, <<"S", "e", "c", "o", "n", "d">>, <<"T", "h", "i", "r", "d">>, <<"F", "o", "r", "t", "h">>, <<"F", "i", "f", "t", "h">>,
      <<"\n", " ", " ", " ", " ", "S", "i", "x", "t", "h">>, <<"S", "e", "v", "e", "n", "t", "h">>, <<"E", "i", "g", "h", "t", "h">>, <<"N", "i", "n", "t", "h">>, <<"T", "e", "n", "t", "h">>>>

MOVEMENT_TEMPI ==
    <<<<"A", "l", "l", "e", "g", "r", "o">>, <<"A", "n", "d", "a", "n", "t", "e">>, <<"A", "n", "d", "a", "n", "t", "i", "n", "o">>, <<"A", "d", "a", "g", "i", "o">>,
      <<"\n", " ", " ", " ", " ", " ", " ", " ", " ", "A", "l", "l", "e", "g", "r", "e", "t", "t", "o">>, <<"M", "o", "d", "e", "r", "a", "t", "o">>, <<"P", "r", "e", "s", "t", "o">>, <<"A", "s", "s", "a", "i">>,
      <<"M", "e", "n", "u", "e", "t", "t", "o">>, <<"R", "o", "n", "d", "o">>, <<"V", "i", "v", "a", "c", "e">>, <<"M", "o", "l", "t", "o">>, <<"L", "a", "r", "g", "o">>,
      <<"L", "a", "r", "g", "h", "e", "t", "t", "o">>, <<"R", "o", "m", "a", "n", "c", "e">>, <<"F", "i", "n", "a", "l", "e">>, <<"S", "c", "h", "e", "r", "z", "o">>, <<"P", "o", "c", "o">>,
      <<"G", "r", "a", "v", "e">>, <<"P", "a", "s", "t", "o", "r", "a", "l", "e">>, <<"M", "a", "e", "s", "t", "o", "s", "o">>, <<"\n", " ", " ", " ", " ", " ", " ", " ", " ", " ", " ", " ", " ", "O", "v", "e", "r", "t", "u", "r", "e">>,
      <<"I", "n", "t", "r", "o", "d", "u", "c", "t", "i", "o", "n">>>>

\* (XC|XL|L?X{0,3}), in the order the matcher tries them
ROMAN_TENS ==
    <<<<"X", "C">>, <<"X", "L">>, <<"L", "X", "X", "X">>, <<"L", "X", "X">>, <<"L", "X">>, <<"L">>, <<"X", "X", "X">>, <<"X", "X">>,
      <<"X">>, <<>> >>

\* (IX|IV|V?I{0,3}), in the order the matcher tries them
ROMAN_UNITS ==
    <<<<"I", "X">>, <<"I", "V">>, <<"V", "I", "I", "I">>, <<"V", "I", "I">>, <<"V", "I">>, <<"V">>, <<"I", "I", "I">>, <<"I", "I">>,
      <<"I">>, <<>> >>

\* (IX|IV|V?I{1,3}), in the order the matcher tries them
ROMAN_MOVEMENT ==
    <<<<"I", "X">>, <<"I", "V">>, <<"V", "I", "I", "I">>, <<"V", "I", "I">>, <<"V", "I">>, <<"I", "I", "I">>, <<"I", "I">>, <<"I">>>>

\* COMPOSER_PATTERN at offset p
ComposerMatchAt(s, p) == AltEnd(s, p, COMPOSER_PATTERN)

\* COMPOSITION_PATTERN at offset p
CompositionMatchAt(s, p) == AltEnd(s, p, COMPOSITION_PATTERN)

\* (?:.)?\s?\d+ from offset e: the greedy matcher takes the optional
\* character, then the optional whitespace, and gives each up in turn
DotSpaceStart(s, e) ==
    LET dot == e < Len(s) /\ IsDot(s[e + 1])
        sp(q) == q < Len(s) /\ IsSpace(s[q + 1])
        dig(q) == q < Len(s) /\ IsDigit(s[q + 1])
    IN IF dot /\ sp(e + 1) /\ dig(e + 2) THEN e + 2
       ELSE IF dot /\ dig(e + 1) THEN e + 1
       ELSE IF sp(e) /\ dig(e + 1) THEN e + 1
       ELSE IF dig(e) THEN e
       ELSE -1

OptNumberEnd(s, e) ==
    LET q == DotSpaceStart(s, e)
    IN IF q < 0 THEN -1 ELSE DigitsEnd(s, q)

\* WORKNUMBER_NUMBER_PATTERN at offset p: ((?:No)(?:.)?\s?\d+)
WorknumberNumberMatchAt(s, p) ==
    IF MatchLit(s, p, <<"N", "o">>) THEN OptNumberEnd(s, p + 2) ELSE -1

\* WORKNUMBER_PATTERN at offset p: ((?:K|KV|OP|Opus|BWV)(?:.)?\s?\d+[a-z]?)
WorknumberMatchAt(s, p) ==
    LET ok == {a \in 1..Len(WORKNUMBER_PREFIXES) :
                  /\ MatchLit(s, p, WORKNUMBER_PREFIXES[a])
                  /\ OptNumberEnd(s, p + Len(WORKNUMBER_PREFIXES[a])) >= 0}
    IN IF ok = {} THEN -1
       ELSE LET e == OptNumberEnd(s, p + Len(WORKNUMBER_PREFIXES[Min(ok)]))
            IN IF e < Len(s) /\ (IsLower(s[e + 1]) \/ IsUpper(s[e + 1]))
               THEN e + 1 ELSE e

\* (?:Nos)(?:.)?\s?\d+\sand\s\d+ at offset p
NosAndMatchAt(s, p) ==
    LET e == p + 3
        dot == e < Len(s) /\ IsDot(s[e + 1])
        sp(q) == q < Len(s) /\ IsSpace(s[q + 1])
        \* \d+\sand\s\d+ from q
        rest(q) ==
            LET r == DigitsEnd(s, q)
            IN IF /\ r > q
                  /\ sp(r)
                  /\ MatchLit(s, r + 1, <<"a", "n", "d">>)
                  /\ sp(r + 4)
                  /\ DigitsEnd(s, r + 5) > r + 5
               THEN DigitsEnd(s, r + 5) ELSE -1
    IN IF ~MatchLit(s, p, <<"N", "o", "s">>) THEN -1
       ELSE IF dot /\ sp(e + 1) /\ rest(e + 2) >= 0 THEN rest(e + 2)
       ELSE IF dot /\ rest(e + 1) >= 0 THEN rest(e + 1)
       ELSE IF sp(e) /\ rest(e + 1) >= 0 THEN rest(e + 1)
       ELSE rest(e)

\* <newline and four spaces>(XC|XL|L?X{0,3})(IX|IV|V?I{0,3})(?=\sin) at p
RomanInMatchAt(s, p) ==
    LET e == p + 5
        ends == {e + Len(ROMAN_TENS[a]) + Len(ROMAN_UNITS[b]) :
                    <<a, b>> \in
                      {ab \in (1..Len(ROMAN_TENS)) \X (1..Len(ROMAN_UNITS)) :
                         /\ MatchLit(s, e, ROMAN_TENS[ab[1]])
                         /\ MatchLit(s, e + Len(ROMAN_TENS[ab[1]]),
                                     ROMAN_UNITS[ab[2]])
                         /\ LET f == e + Len(ROMAN_TENS[ab[1]])
                                       + Len(ROMAN_UNITS[ab[2]])
                            IN /\ f < Len(s)
                               /\ IsSpace(s[f + 1])
                               /\ MatchLit(s, f + 1, <<"i", "n">>)}}
    IN IF MatchLit(s, p, <<"\n", " ", " ", " ", " ">>) /\ ends # {} THEN Max(ends) ELSE -1

\* COMPOSITION_NUMBER at offset p
CompositionNumberMatchAt(s, p) ==
    IF WorknumberNumberMatchAt(s, p) >= 0 THEN WorknumberNumberMatchAt(s, p)
    ELSE IF NosAndMatchAt(s, p) >= 0 THEN NosAndMatchAt(s, p)
    ELSE RomanInMatchAt(s, p)

\* NICKNAME_PATTERN at offset p: (?<=\").*?(?=\")|(?<=').*?(?=')
QuotedMatchAt(s, p, quote) ==
    LET closing == {e \in p..LineEnd(s, p) : e < Len(s) /\ s[e + 1] = quote}
    IN IF p > 0 /\ s[p] = quote /\ closing # {} THEN Min(closing) ELSE -1

NicknameMatchAt(s, p) ==
    IF QuotedMatchAt(s, p, "\"") >= 0 THEN QuotedMatchAt(s, p, "\"")
    ELSE QuotedMatchAt(s, p, "'")

\* (\.\s|\s-\s) at offset p
SeparatorEnd(s, p) ==
    IF p + 2 <= Len(s) /\ s[p + 1] = "." /\ IsSpace(s[p + 2]) THEN p + 2
    ELSE IF /\ p + 3 <= Len(s)
            /\ IsSpace(s[p + 1]) /\ s[p + 2] = "-" /\ IsSpace(s[p + 3])
         THEN p + 3
    ELSE -1

\* MOVEMENT_NUMBER_PATTERN at offset p: ([0-9][0-9](\.\s|\s-\s).*)
MovementNumberMatchAt(s, p) ==
    IF /\ p + 2 <= Len(s)
       /\ IsDigit(s[p + 1]) /\ IsDigit(s[p + 2])
       /\ SeparatorEnd(s, p + 2) >= 0
    THEN LineEnd(s, SeparatorEnd(s, p + 2))
    ELSE -1

\* \d{1,2}(?:st|nd|rd|th)\sMov(?:ement)?.*
MovementOrdinalDigitsAt(s, p) ==
    LET suffix(q) == \E x \in { <<"s", "t">>, <<"n", "d">>, <<"r", "d">>, <<"t", "h">> } :
                        MatchLit(s, q, x)
        tail(q) == /\ suffix(q)
                   /\ q + 2 < Len(s) /\ IsSpace(s[q + 3])
                   /\ MatchLit(s, q + 3, <<"M", "o", "v">>)
        d == DigitsEnd(s, p) - p
    IN IF d >= 2 /\ tail(p + 2) THEN LineEnd(s, p + 8)
       ELSE IF d >= 1 /\ tail(p + 1) THEN LineEnd(s, p + 7)
       ELSE -1

\* (First|...|Tenth)\sMov(?:ement).*
MovementOrdinalWordAt(s, p) ==
    LET e == AltEnd(s, p, MOVEMENT_ORDINALS)
    IN IF /\ e >= 0
          /\ e < Len(s) /\ IsSpace(s[e + 1])
          /\ MatchLit(s, e + 1, <<"M", "o", "v", "e", "m", "e", "n", "t">>)
       THEN LineEnd(s, e + 9) ELSE -1

\* (IX|IV|V?I{1,3})(\.\s|\s-\s).*
MovementRomanAt(s, p) ==
    LET ok == {a \in 1..Len(ROMAN_MOVEMENT) :
                  /\ MatchLit(s, p, ROMAN_MOVEMENT[a])
                  /\ SeparatorEnd(s, p + Len(ROMAN_MOVEMENT[a])) >= 0}
    IN IF ok = {} THEN -1
       ELSE LineEnd(s, SeparatorEnd(s, p + Len(ROMAN_MOVEMENT[Min(ok)])))

\* <newline and eight spaces>Mov(?:ement)?(?:s)?\s(IX|IV|V?I{1,3}).*
MovementWordRomanAt(s, p) ==
    LET lit == <<"\n", " ", " ", " ", " ", " ", " ", " ", " ", "M", "o", "v">>
        e == p + Len(lit)
        e1 == IF MatchLit(s, e, <<"e", "m", "e", "n", "t">>) THEN e + 5 ELSE e
        opt(q) == IF MatchLit(s, q, <<"s">>) THEN {q + 1, q} ELSE {q}
        roman(q) == /\ q < Len(s) /\ IsSpace(s[q + 1])
                    /\ \E a \in 1..Len(ROMAN_MOVEMENT) :
                          MatchLit(s, q + 1, ROMAN_MOVEMENT[a])
        qs == {q \in opt(e1) \cup opt(e) : roman(q)}
    IN IF MatchLit(s, p, lit) /\ qs # {}
       THEN LineEnd(s, Max(qs) + 2) ELSE -1

\* Act\s\d{1,2}(?:.)?.*
MovementActAt(s, p) ==
    IF /\ MatchLit(s, p, <<"A", "c", "t">>)
       /\ p + 3 < Len(s) /\ IsSpace(s[p + 4])
       /\ DigitsEnd(s, p + 4) > p + 4
    THEN LineEnd(s, p + 5) ELSE -1

\* ((?<=:\s)|(?<=-\s))(Allegro|...|(?:Un\s)?Poco|...|Introduction).*
MovementTempoAt(s, p) ==
    LET behind == p >= 2 /\ IsSpace(s[p]) /\ s[p - 1] \in {":", "-"}
        a == FirstAlt(s, p, MOVEMENT_TEMPI)
        un == /\ MatchLit(s, p, <<"U", "n">>)
              /\ p + 2 < Len(s) /\ IsSpace(s[p + 3])
              /\ MatchLit(s, p + 3, <<"P", "o", "c", "o">>)
    IN IF ~behind THEN -1
       ELSE IF a > 0 THEN LineEnd(s, p + Len(MOVEMENT_TEMPI[a]))
       ELSE IF un THEN LineEnd(s, p + 7)
       ELSE -1

\* Variatio\s\d{1,2}.*
MovementVariatioAt(s, p) ==
    IF /\ MatchLit(s, p, <<"V", "a", "r", "i", "a", "t", "i", "o">>)
       /\ p + 8 < Len(s) /\ IsSpace(s[p + 9])
       /\ DigitsEnd(s, p + 9) > p + 9
    THEN LineEnd(s, p + 10) ELSE -1

\* \bAria.*\b: .* gives characters back until a word boundary follows
MovementAriaAt(s, p) ==
    LET stops == {e \in (p + 4)..LineEnd(s, p + 4) : WordBoundary(s, e)}
    IN IF WordBoundary(s, p) /\ MatchLit(s, p, <<"A", "r", "i", "a">>) /\ stops # {}
       THEN Max(stops) ELSE -1

\* MOVEMENT_PATTERN at offset p: the first alternative that matches
MovementMatchAt(s, p) ==
    IF MovementOrdinalDigitsAt(s, p) >= 0 THEN MovementOrdinalDigitsAt(s, p)
    ELSE IF MovementOrdinalWordAt(s, p) >= 0 THEN MovementOrdinalWordAt(s, p)
    ELSE IF MovementRomanAt(s, p) >= 0 THEN MovementRomanAt(s, p)
    ELSE IF MovementWordRomanAt(s, p) >= 0 THEN MovementWordRomanAt(s, p)
    ELSE IF MovementActAt(s, p) >= 0 THEN MovementActAt(s, p)
    ELSE IF MovementTempoAt(s, p) >= 0 THEN MovementTempoAt(s, p)
    ELSE IF MovementVariatioAt(s, p) >= 0 THEN MovementVariatioAt(s, p)
    ELSE MovementAriaAt(s, p)

\* KEY_PATTERN at offset p:
\* (?<=in)(?:\s)?\b[A-G]\b(?:-Flat|\sFlat|b|-Sharp|\sSharp|#)?(?:\sMajor|\sMinor)?
KeyMatchAt(s, p) ==
    LET letter(q) == /\ WordBoundary(s, q)
                     /\ q < Len(s)
                     /\ Lower(s[q + 1]) \in {"a", "b", "c", "d", "e", "f", "g"}
                     /\ WordBoundary(s, q + 1)
        q == IF p < Len(s) /\ IsSpace(s[p + 1]) /\ letter(p + 1) THEN p + 1
             ELSE IF letter(p) THEN p
             ELSE -1
        e == q + 1
        acc == IF MatchLit(s, e, <<"-", "F", "l", "a", "t">>) THEN e + 5
               ELSE IF e < Len(s) /\ IsSpace(s[e + 1])
                       /\ MatchLit(s, e + 1, <<"F", "l", "a", "t">>) THEN e + 5
               ELSE IF MatchLit(s, e, <<"b">>) THEN e + 1
               ELSE IF MatchLit(s, e, <<"-", "S", "h", "a", "r", "p">>) THEN e + 6
               ELSE IF e < Len(s) /\ IsSpace(s[e + 1])
                       /\ MatchLit(s, e + 1, <<"S", "h", "a", "r", "p">>) THEN e + 6
               ELSE IF MatchLit(s, e, <<"#">>) THEN e + 1
               ELSE e
        mode == IF /\ acc < Len(s) /\ IsSpace(s[acc + 1])
                   /\ (MatchLit(s, acc + 1, <<"M", "a", "j", "o", "r">>)
                        \/ MatchLit(s, acc + 1, <<"M", "i", "n", "o", "r">>))
                THEN acc + 6 ELSE acc
    IN IF MatchLit(s, p - 2, <<"i", "n">>) /\ q >= 0 THEN mode ELSE -1

\* (?:s)?\b after an instrument name that ends at offset e
PluralEnd(s, e) ==
    IF MatchLit(s, e, <<"s">>) /\ WordBoundary(s, e + 1) THEN e + 1
    ELSE IF WordBoundary(s, e) THEN e
    ELSE -1

\* (?<!Magic\s) at offset p
NotAfterMagic(s, p) == ~(MatchLit(s, p - 6, <<"M", "a", "g", "i", "c">>) /\ IsSpace(s[p]))

\* the alternative of INSTRUMENT_PATTERN that matches at offset p (0: none)
InstrumentAlt(s, p) ==
    LET ok == {a \in 1..Len(INSTRUMENT_NAMES) :
                  /\ MatchLit(s, p, INSTRUMENT_NAMES[a])
                  /\ INSTRUMENT_NAMES[a] = <<"F", "l", "u", "t", "e">> => NotAfterMagic(s, p)
                  /\ PluralEnd(s, p + Len(INSTRUMENT_NAMES[a])) >= 0}
    IN IF WordBoundary(s, p) /\ ok # {} THEN Min(ok) ELSE 0

\* INSTRUMENT_PATTERN at offset p
InstrumentMatchAt(s, p) ==
    LET a == InstrumentAlt(s, p)
    IN IF a = 0 THEN -1 ELSE PluralEnd(s, p + Len(INSTRUMENT_NAMES[a]))

\* group(0): the name with the plural "s"
InstrumentGroup0(s, p) == SubSeq(s, p + 1, InstrumentMatchAt(s, p))

\* group(1) of a match of INSTRUMENT_PATTERN that starts at offset p
InstrumentGroup1(s, p) ==
    SubSeq(s, p + 1, p + Len(INSTRUMENT_NAMES[InstrumentAlt(s, p)]))

(***************************************************************************)
(* re.search and re.finditer, with re.IGNORECASE.                          *)
(***************************************************************************)
\* for each pattern, the end of its match at every offset of s (-1: none)
ComposerEnds(s) == [p \in 0..Len(s) |-> ComposerMatchAt(s, p)]

CompositionEnds(s) == [p \in 0..Len(s) |-> CompositionMatchAt(s, p)]

CompositionNumberEnds(s) == [p \in 0..Len(s) |-> CompositionNumberMatchAt(s, p)]

NicknameEnds(s) == [p \in 0..Len(s) |-> NicknameMatchAt(s, p)]

WorknumberEnds(s) == [p \in 0..Len(s) |-> WorknumberMatchAt(s, p)]

WorknumberNumberEnds(s) == [p \in 0..Len(s) |-> WorknumberNumberMatchAt(s, p)]

MovementEnds(s) == [p \in 0..Len(s) |-> MovementMatchAt(s, p)]

MovementNumberEnds(s) == [p \in 0..Len(s) |-> MovementNumberMatchAt(s, p)]

KeyEnds(s) == [p \in 0..Len(s) |-> KeyMatchAt(s, p)]

InstrumentEnds(s) == [p \in 0..Len(s) |-> InstrumentMatchAt(s, p)]

\* re.search: the leftmost offset where the pattern matches
re_search(ends) ==
    LET hits == {p \in DOMAIN ends : ends[p] >= 0}
    IN IF hits = {} THEN NoMatch
       ELSE LET p == Min(hits) IN [start |-> p, end |-> ends[p]]

\* match.group(0)
group(s, m) == SubSeq(s, m.start + 1, m.end)

\* re.finditer: the non-overlapping matches, left to right (no pattern used
\* with it matches the empty string)
RECURSIVE IterFrom(_, _, _)
IterFrom(ends, n, p) ==
    IF p > n THEN <<>>
    ELSE IF ends[p] > p
         THEN <<[start |-> p, end |-> ends[p]]>> \o IterFrom(ends, n, ends[p])
         ELSE IterFrom(ends, n, p + 1)

re_finditer(ends) == IterFrom(ends, Cardinality(DOMAIN ends) - 1, 0)

(***************************************************************************)
(* The extractors. A call returns a value or raises: Return(v), Raise(e).  *)
(***************************************************************************)
Return(v) == [raised |-> FALSE, value |-> v]

Raise(e) == [raised |-> TRUE, value |-> e]

\* a resolver that returns the name as it is written
Canonical_AsWritten(name) == name

\* composer_result.group(0).lower().capitalize()
Canonical(name) == Capitalize(LowerStr(name))

\* a resolver that looks at the title first
ComposerSources_TitleFirst(file) == <<file.title, file.artist, file.album>>

\* entires = [file.artist, file.title, file.album]
ComposerSources(file) == <<file.artist, file.title, file.album>>

\* re.search and re.findall raise TypeError when the string is None
RECURSIVE ComposerEntries(_, _)
ComposerEntries(entires, k) ==
    IF k > Len(entires) THEN NoMatch
    ELSE IF entires[k] = None THEN Raise("TypeError")
    ELSE LET composer_result == re_search(ComposerEnds(entires[k]))
         IN IF composer_result # NoMatch
            THEN Return(Canonical(group(entires[k], composer_result)))
            ELSE ComposerEntries(entires, k + 1)

extract_composer(file, file_path) ==
    LET found == ComposerEntries(ComposerSources(file), 1)
        composer_result == re_search(ComposerEnds(file_path))
    IN IF found # NoMatch THEN found
       ELSE IF composer_result = NoMatch THEN Raise("AttributeError")
       ELSE Return(Canonical(group(file_path, composer_result)))

\* re.findall of a pattern without groups: the matches' texts
FindAllTexts(ends, s) ==
    LET ms == re_finditer(ends)
    IN [k \in 1..Len(ms) |-> group(s, ms[k])]

CapitalizeAll(list) == [k \in 1..Len(list) |-> Capitalize(list[k])]

extract_composition(title) ==
    IF title = None THEN Raise("TypeError")
    ELSE LET composition_result == FindAllTexts(CompositionEnds(title), title)
             matches == FromKeys(CapitalizeAll(composition_result))
         IN Return(Join(matches, <<",", " ">>))

\* a composition number that is looked for in the whole title
extract_composition_no_WholeTitle(title) ==
    IF title = None THEN Raise("TypeError")
    ELSE LET composition_no_result == re_search(CompositionNumberEnds(title))
         IN IF composition_no_result # NoMatch
            THEN Return(group(title, composition_no_result))
            ELSE Return(None)

extract_composition_no(title) ==
    IF title = None THEN Raise("TypeError")
    ELSE LET composition_result == re_search(CompositionEnds(title))
             instrument_result == re_search(InstrumentEnds(title))
             start_position ==
                 IF composition_result # NoMatch THEN composition_result.end
                 ELSE IF instrument_result # NoMatch THEN instrument_result.end
                 ELSE 0
             rest == SliceFrom(title, start_position)
             composition_no_result == re_search(CompositionNumberEnds(rest))
         IN IF composition_no_result # NoMatch
            THEN Return(group(rest, composition_no_result))
            ELSE Return(None)

extract_nickname(title) ==
    IF title = None THEN Raise("TypeError")
    ELSE LET nickname_result == re_search(NicknameEnds(title))
         IN IF nickname_result # NoMatch
            THEN Return(group(title, nickname_result))
            ELSE Return(None)

\* a work number that takes its "No. N" from anywhere in the title
extract_workno_AnyNumber(title) ==
    IF title = None THEN Raise("TypeError")
    ELSE LET result == re_search(WorknumberEnds(title))
             number_result == re_search(WorknumberNumberEnds(title))
         IN IF result = NoMatch THEN Return(None)
            ELSE IF number_result # NoMatch
                 THEN Return(group(title, result) \o <<",", " ">>
                               \o group(title, number_result))
                 ELSE Return(group(title, result))

extract_workno(title) ==
    IF title = None THEN Raise("TypeError")
    ELSE LET result == re_search(WorknumberEnds(title))
             rest == SliceFrom(title, result.end)
             number_result == re_search(WorknumberNumberEnds(rest))
         IN IF result = NoMatch THEN Return(None)
            ELSE IF number_result # NoMatch
                 THEN Return(group(title, result) \o <<",", " ">>
                               \o group(rest, number_result))
                 ELSE Return(group(title, result))

\* the numeric form looked for after the first work number
MovementNumberSearch_FirstToken(title) ==
    LET workno_match == re_search(WorknumberEnds(title))
        title_search ==
            IF workno_match # NoMatch
            THEN SliceFrom(title, workno_match.end)
            ELSE title
        movement_result == re_search(MovementNumberEnds(title_search))
    IN IF movement_result # NoMatch
       THEN group(title_search, movement_result)
       ELSE None

\* the first search of extract_movement: the numeric form, looked for after
\* the last work number
MovementNumberSearch(title) ==
    LET workno_last_match == re_finditer(WorknumberEnds(title))
        title_search ==
            IF workno_last_match # <<>>
            THEN SliceFrom(title, workno_last_match[Len(workno_last_match)].end)
            ELSE title
        movement_result == re_search(MovementNumberEnds(title_search))
    IN IF movement_result # NoMatch
       THEN group(title_search, movement_result)
       ELSE None

\* a search that tries the sub-patterns of MOVEMENT_PATTERN first
extract_movement_FallbackFirst(title) ==
    IF title = None THEN Raise("TypeError")
    ELSE LET movement_result == re_search(MovementEnds(title))
         IN IF movement_result # NoMatch
            THEN Return(group(title, movement_result))
            ELSE Return(MovementNumberSearch(title))

extract_movement(title) ==
    IF title = None THEN Raise("TypeError")
    ELSE LET movement_result == re_search(MovementEnds(title))
         IN IF MovementNumberSearch(title) # None
            THEN Return(MovementNumberSearch(title))
            ELSE IF movement_result # NoMatch
                 THEN Return(group(title, movement_result))
                 ELSE Return(None)

extract_key(title) ==
    IF title = None THEN Raise("TypeError")
    ELSE LET key_result == re_search(KeyEnds(title))
         IN IF key_result # NoMatch
            THEN Return(group(title, key_result))
            ELSE Return(None)

\* re.findall of a pattern with one group gives the group's texts
extract_instruments(title) ==
    IF title = None THEN Raise("TypeError")
    ELSE LET ms == re_finditer(InstrumentEnds(title))
             result == [k \in 1..Len(ms) |-> InstrumentGroup1(title, ms[k].start)]
             matches == FromKeys(CapitalizeAll(result))
         IN Return(Join(matches, <<",", " ">>))

(***************************************************************************)
(* LabelEncoder of scikit-learn: the classes are the distinct values in    *)
(* sorted order, and a value's code is the index of its class.             *)
(***************************************************************************)
\* an encoder that numbers the rows
fit_transform_ByRow(y) == [k \in 1..Len(y) |-> k - 1]

\* an encoder that numbers the values in the order they first appear
fit_transform_FirstSeen(y) ==
    LET first(v) == Min({j \in 1..Len(y) : y[j] = v})
    IN [k \in 1..Len(y) |->
          Cardinality({first(y[j]) : j \in 1..Len(y)}
                          \cap 1..(first(y[k]) - 1))]

fit_transform(y) ==
    LET classes_ == {y[k] : k \in 1..Len(y)}
    IN [k \in 1..Len(y) |->
          Cardinality({c \in classes_ : StrLess(c, y[k])})]

(***************************************************************************)
(* label_data. process_files() gives one (path, file) pair for every audio *)
(* file under the raw-data directory; the files of a directory tree have   *)
(* different relative paths, so the k-th file is given the k-th name.      *)
(***************************************************************************)
FileNumbers == <<"1", "2", "3", "4", "5", "6", "7", "8", "9">>

FileName(k) == <<"t", FileNumbers[k]>> \o <<".", "m", "p", "3">>

\* the (path, file) pairs made of a sequence of tags
process_files(tags) ==
    [k \in 1..Len(tags) |->
        [path |-> tags[k].path, filename |-> FileName(k),
         title |-> tags[k].title, artist |-> tags[k].artist,
         album |-> tags[k].album]]

\* all(v is None for v in [file.artist, file.title, file.album])
MetadataEmpty(file) ==
    \A v \in {file.artist, file.title, file.album} : v = None

\* d[k] = v of a dict
DictSet(d, k, v) ==
    [x \in DOMAIN d \cup {k} |-> IF x = k THEN v ELSE d[x]]

\* DataFrame.fillna(""): the absent values of every row become ""
fillna(df) ==
    [r \in 1..Len(df) |->
        [x \in DOMAIN df[r] |-> IF df[r][x] = None THEN <<>> ELSE df[r][x]]]

\* files_df["composer_enc"] = LabelEncoder().fit_transform(files_df["composer"])
EncodeComposers(df) ==
    LET composer_enc == fit_transform([r \in 1..Len(df) |-> df[r].composer])
    IN [r \in 1..Len(df) |-> DictSet(df[r], "composer_enc", composer_enc[r])]

AllOff ==
    [composition |-> FALSE, nickname |-> FALSE, worknumber |-> FALSE,
     key |-> FALSE, movement |-> FALSE, instruments |-> FALSE]

AllOn ==
    [composition |-> TRUE, nickname |-> TRUE, worknumber |-> TRUE,
     key |-> TRUE, movement |-> TRUE, instruments |-> TRUE]

\* a label_data that starts from a table an earlier call has left
InitWith_LeftoverTable(batches, switches) ==
    /\ files \in {process_files(tags) : tags \in batches}
    /\ args \in switches
    /\ pc = "for"
    /\ idx = 0
    /\ columns = <<"path", "filename", "title", "composer">>
    /\ new_row = <<>>
    /\ files_df \in {<<>>, <<[path |-> <<"B", "a", "c", "h">>, filename |-> <<"o", "l", "d", ".", "m", "p", "3">>,
                              title |-> <<"S", "u", "i", "t", "e">>, composer |-> <<"B", "a", "c", "h">>]>>}
    /\ exc = "none"
    /\ calls = {}

\* the state when label_data enters its loop over process_files()
InitWith(batches, switches) ==
    /\ files \in {process_files(tags) : tags \in batches}
    /\ args \in switches
    /\ pc = "for"
    /\ idx = 0
    /\ columns = <<"path", "filename", "title", "composer">>
    /\ new_row = <<>>
    /\ files_df = <<>>
    /\ exc = "none"
    /\ calls = {}

\* for _, (path, file) in enumerate(process_files()): the next file
ForNext ==
    /\ pc = "for"
    /\ idx < Len(files)
    /\ idx' = idx + 1
    /\ pc' = "file"
    /\ UNCHANGED <<files, args, columns, new_row, files_df, exc, calls>>

\* the metadata of the file is completely empty: continue
Skip ==
    /\ pc = "file"
    /\ MetadataEmpty(files[idx])
    /\ pc' = "for"
    /\ UNCHANGED <<files, args, idx, columns, new_row, files_df, exc, calls>>

\* composer = extract_composer(file, str(path.parent)); new_row = {...}
ResolveComposer ==
    /\ pc = "file"
    /\ ~MetadataEmpty(files[idx])
    /\ calls' = calls \cup {<<"extract_composer", idx>>}
    /\ LET composer == extract_composer(files[idx], files[idx].path)
       IN IF composer.raised
          THEN /\ pc' = "raised"
               /\ exc' = composer.value
               /\ UNCHANGED new_row
          ELSE /\ new_row' = [path |-> files[idx].path,
                              filename |-> files[idx].filename,
                              title |-> files[idx].title,
                              composer |-> composer.value]
               /\ pc' = "composition"
               /\ UNCHANGED exc
    /\ UNCHANGED <<files, args, idx, columns, files_df>>

\* if args.composition: the composition and its number
Composition ==
    /\ pc = "composition"
    /\ IF args.composition
       THEN LET composition == extract_composition(files[idx].title)
                composition_number == extract_composition_no(files[idx].title)
            IN IF composition.raised
               THEN /\ pc' = "raised"
                    /\ exc' = composition.value
                    /\ calls' = calls \cup {<<"extract_composition", idx>>}
                    /\ UNCHANGED <<columns, new_row>>
               ELSE /\ columns' = columns \o <<"composition", "composition_number">>
                    /\ new_row' = DictSet(DictSet(new_row, "composition",
                                                  composition.value),
                                          "composition_number",
                                          composition_number.value)
                    /\ calls' = calls \cup {<<"extract_composition", idx>>,
                                            <<"extract_composition_no", idx>>}
                    /\ pc' = "nickname"
                    /\ UNCHANGED exc
       ELSE /\ pc' = "nickname"
            /\ UNCHANGED <<columns, new_row, exc, calls>>
    /\ UNCHANGED <<files, args, idx, files_df>>

\* a field that is extracted whatever its switch says
OptionalField_Unconditional(here, switch, extractor, result, column, next) ==
    /\ pc = here
    /\ calls' = calls \cup {<<extractor, idx>>}
    /\ IF result.raised
       THEN /\ pc' = "raised"
            /\ exc' = result.value
            /\ UNCHANGED <<columns, new_row>>
       ELSE /\ columns' = Append(columns, column)
            /\ new_row' = DictSet(new_row, column, result.value)
            /\ pc' = next
            /\ UNCHANGED exc
    /\ UNCHANGED <<files, args, idx, files_df>>

\* if args.<switch>: <column> = <extractor>(file.title)
OptionalField(here, switch, extractor, result, column, next) ==
    /\ pc = here
    /\ IF switch
       THEN /\ calls' = calls \cup {<<extractor, idx>>}
            /\ IF result.raised
               THEN /\ pc' = "raised"
                    /\ exc' = result.value
                    /\ UNCHANGED <<columns, new_row>>
               ELSE /\ columns' = Append(columns, column)
                    /\ new_row' = DictSet(new_row, column, result.value)
                    /\ pc' = next
                    /\ UNCHANGED exc
       ELSE /\ pc' = next
            /\ UNCHANGED <<columns, new_row, exc, calls>>
    /\ UNCHANGED <<files, args, idx, files_df>>

Nickname ==
    OptionalField("nickname", args.nickname, "extract_nickname",
                  extract_nickname(files[idx].title), "nickname", "worknumber")

Worknumber ==
    OptionalField("worknumber", args.worknumber, "extract_workno",
                  extract_workno(files[idx].title), "workno", "key")

Key ==
    OptionalField("key", args.key, "extract_key",
                  extract_key(files[idx].title), "key", "movement")

Movement ==
    OptionalField("movement", args.movement, "extract_movement",
                  extract_movement(files[idx].title), "movement", "instruments")

Instruments ==
    OptionalField("instruments", args.instruments, "extract_instruments",
                  extract_instruments(files[idx].title), "instruments", "concat")

\* files_df = pd.concat([files_df, pd.DataFrame([new_row])], ignore_index=True)
Concat ==
    /\ pc = "concat"
    /\ files_df' = Append(files_df, new_row)
    /\ pc' = "for"
    /\ UNCHANGED <<files, args, idx, columns, new_row, exc, calls>>

\* an encoder that may run as soon as the table has a row
Encode_InsideLoop ==
    /\ pc = "for"
    /\ idx = Len(files) \/ files_df # <<>>
    /\ files_df' = EncodeComposers(fillna(files_df))
    /\ calls' = calls \cup {<<"fit_transform", 0>>}
    /\ pc' = IF idx = Len(files) THEN "done" ELSE "for"
    /\ UNCHANGED <<files, args, idx, columns, new_row, exc>>

\* after the loop: fillna, the label encoder, return files_df
Encode ==
    /\ pc = "for"
    /\ idx = Len(files)
    /\ files_df' = EncodeComposers(fillna(files_df))
    /\ calls' = calls \cup {<<"fit_transform", 0>>}
    /\ pc' = "done"
    /\ UNCHANGED <<files, args, idx, columns, new_row, exc>>

Next ==
    \/ ForNext
    \/ Skip
    \/ ResolveComposer
    \/ Composition
    \/ Nickname
    \/ Worknumber
    \/ Key
    \/ Movement
    \/ Instruments
    \/ Concat
    \/ Encode


(***************************************************************************)
(* label_data as a function of the files and the switches: what a call     *)
(* returns, or the exception that ends it.                                 *)
(***************************************************************************)
\* the optional fields in the order label_data fills them
OptionalFields(title, a) ==
    <<[switch |-> a.composition, column |-> "composition",
       result |-> extract_composition(title)],
      [switch |-> a.composition, column |-> "composition_number",
       result |-> extract_composition_no(title)],
      [switch |-> a.nickname, column |-> "nickname",
       result |-> extract_nickname(title)],
      [switch |-> a.worknumber, column |-> "workno",
       result |-> extract_workno(title)],
      [switch |-> a.key, column |-> "key", result |-> extract_key(title)],
      [switch |-> a.movement, column |-> "movement",
       result |-> extract_movement(title)],
      [switch |-> a.instruments, column |-> "instruments",
       result |-> extract_instruments(title)]>>

RECURSIVE FillRow(_, _, _)
FillRow(row, fields, k) ==
    IF k > Len(fields) THEN Return(row)
    ELSE IF ~fields[k].switch THEN FillRow(row, fields, k + 1)
    ELSE IF fields[k].result.raised THEN fields[k].result
    ELSE FillRow(DictSet(row, fields[k].column, fields[k].result.value),
                 fields, k + 1)

\* one pass of the loop body for a file that is not skipped
RowOf(file, a) ==
    LET composer == extract_composer(file, file.path)
    IN IF composer.raised THEN composer
       ELSE FillRow([path |-> file.path, filename |-> file.filename,
                     title |-> file.title, composer |-> composer.value],
                    OptionalFields(file.title, a), 1)

RECURSIVE LoopFrom(_, _, _, _)
LoopFrom(fs, a, k, df) ==
    IF k > Len(fs) THEN Return(df)
    ELSE IF MetadataEmpty(fs[k]) THEN LoopFrom(fs, a, k + 1, df)
    ELSE LET new_row_ == RowOf(fs[k], a)
         IN IF new_row_.raised THEN new_row_
            ELSE LoopFrom(fs, a, k + 1, Append(df, new_row_.value))

label_data(fs, a) ==
    LET rows == LoopFrom(fs, a, 1, <<>>)
    IN IF rows.raised THEN rows
       ELSE Return(EncodeComposers(fillna(rows.value)))
(***************************************************************************)
(* The inputs. A tag is what the tag reader gives for one file: the        *)
(* directory of the file and its title, artist and album, each a str or    *)
(* None.                                                                   *)
(***************************************************************************)
MaxFiles == 3

MaxFrags == 3

Tag(path, title, artist, album) ==
    [path |-> path, title |-> title, artist |-> artist, album |-> album]

EmptyTag == Tag(<<"M", "o", "z", "a", "r", "t">>, None, None, None)

\* the sequences of at most n elements of S
RECURSIVE SeqsUpTo(_, _)
SeqsUpTo(S, n) ==
    IF n = 0 THEN {<<>>}
    ELSE LET shorter == SeqsUpTo(S, n - 1)
         IN shorter \cup {Append(q, x) : q \in shorter, x \in S}

\* the strings made of at most n of the fragments
RECURSIVE Concats(_, _)
Concats(frags, n) ==
    IF n = 0 THEN {<<>>}
    ELSE LET shorter == Concats(frags, n - 1)
         IN shorter \cup {t \o f : t \in shorter, f \in frags}

\* one file with the title, by Bach, or one file without metadata
TitleBatches(titles) ==
    {<<Tag(<<"B", "a", "c", "h">>, t, <<"J", ".", "S", ".", " ", "B", "a", "c", "h">>, <<"W", "o", "r", "k", "s">>)>> : t \in titles}
        \cup {<<EmptyTag>>}

Only(switch) == [x \in DOMAIN AllOff |-> x = switch]

\* batches of files of several composers, with and without metadata
BatchTags ==
    {Tag(<<"B", "a", "c", "h">>, <<"S", "u", "i", "t", "e", " ", "N", "o", ".", " ", "1">>, <<"J", ".", "S", ".", " ", "B", "a", "c", "h">>, <<"S", "u", "i", "t", "e", "s">>),
     EmptyTag,
     Tag(<<"m">>, <<"S", "o", "n", "a", "t", "a">>, <<"M", "O", "Z", "A", "R", "T">>, None),
     Tag(<<"B", "a", "c", "h">>, <<"B", "a", "c", "h", " ", "S", "u", "i", "t", "e">>, None, None),
     Tag(<<"b", "e", "e", "t", "h", "o", "v", "e", "n">>, <<"S", "y", "m", "p", "h", "o", "n", "y">>, <<"u", "n", "k", "n", "o", "w", "n">>, <<"S", "y", "m", "p", "h", "o", "n", "i", "e", "s">>),
     Tag(<<"m", "i", "s", "c">>, <<"T", "r", "i", "o">>, <<"u", "n", "k", "n", "o", "w", "n">>, <<"T", "r", "i", "o", "s">>)}

InitBatch == InitWith(SeqsUpTo(BatchTags, MaxFiles), {AllOff, AllOn})

SpecBatch == InitBatch /\ [][Next]_vars

\* one file, every combination of where a composer's name stands
ComposerFields ==
    {None, <<"u", "n", "k", "n", "o", "w", "n">>, <<"J", ".", "S", ".", " ", "B", "A", "C", "H">>, <<"m", "o", "z", "a", "r", "t">>, <<"B", "e", "e", "t", "h", "o", "v", "e", "n", " ", "a", "r", "r", ".", " ", "b", "a", "c", "h">>}

ComposerPaths == { <<"m", "u", "s", "i", "c">>, <<"b", "a", "c", "h", "/", "s", "u", "i", "t", "e", "s">>, <<"M", "o", "z", "a", "r", "t">> }

InitComposer ==
    InitWith({<<Tag(p, t, a, b)>> :
                 p \in ComposerPaths, t \in ComposerFields,
                 a \in ComposerFields, b \in ComposerFields},
             {AllOff})

SpecComposer == InitComposer /\ [][Next]_vars

\* the titles of the specification's examples, under every configuration
ExampleTitles ==
    { <<"P", "i", "a", "n", "o", " ", "S", "o", "n", "a", "t", "a", " ", "N", "o", ".", " ", "1", "4", " ", "i", "n", " ", "C", "-", "s", "h", "a", "r", "p", " ", "m", "i", "n", "o", "r", ",", " ", "O", "p", ".", " ", "2", "7", ",", " ", "N", "o", ".", " ", "2", ",", " ", "'", "M", "o", "o", "n", "l", "i", "g", "h", "t", "'", ":", " ", "1", "s", "t", " ", "M", "o", "v", "e", "m", "e", "n", "t", ":", " ", "A", "d", "a", "g", "i", "o", " ", "s", "o", "s", "t", "e", "n", "u", "t", "o">>,
      <<"S", "o", "n", "a", "t", "a", " ", "N", "o", ".", " ", "1", "4", " ", "i", "n", " ", "C", "-", "s", "h", "a", "r", "p", " ", "m", "i", "n", "o", "r">>,
      <<"S", "o", "n", "a", "t", "a", " ", "O", "p", ".", " ", "2", "7", ",", " ", "N", "o", ".", " ", "2", " ", "i", "n", " ", "C", " ", "m", "i", "n", "o", "r">>,
      <<"S", "o", "n", "a", "t", "a", " ", "f", "o", "r", " ", "P", "i", "a", "n", "o", " ", "a", "n", "d", " ", "V", "i", "o", "l", "i", "n">> }

InitExamples ==
    InitWith(TitleBatches(ExampleTitles),
             [DOMAIN AllOff -> BOOLEAN])

SpecExamples == InitExamples /\ [][Next]_vars

\* titles for extract_composition
CompositionFrags ==
    { <<"S", "o", "n", "a", "t", "a">>, <<"S", "O", "N", "A", "T", "A">>, <<" ", "s", "t", "r", "i", "n", "g", " ">>, <<"Q", "u", "a", "r", "t", "e", "t">>, <<"\n", " ", " ", " ", " ", "V", "a", "r", "i", "a", "t", "i", "o", "n", "s">>,
      <<" ", "f", "o", "r", " ">> }

InitComposition ==
    InitWith(TitleBatches(Concats(CompositionFrags, MaxFrags)),
             {Only("composition")})

SpecComposition == InitComposition /\ [][Next]_vars

\* titles for extract_movement
MovementFrags ==
    { <<"O", "p", ".", " ", "1">>, <<"K", " ", "2">>, <<" ", "0", "1", ".", " ", "A", "l", "l", "e", "g", "r", "o">>, <<" ", "1", "2", " ", "-", " ", "L", "a", "r", "g", "o">>, <<":", " ", "A", "d", "a", "g", "i", "o">>,
      <<" ", "3">> }

InitMovement ==
    InitWith(TitleBatches(Concats(MovementFrags, MaxFrags)
                            \cup { <<"O", "p", ".", " ", "1", " ", "0", "1", ".", " ", "A", "l", "l", "e", "g", "r", "o", " ", "K", " ", "2", " ", "1", "2", " ", "-", " ", "L", "a", "r", "g", "o">> }),
             {Only("movement")})

SpecMovement == InitMovement /\ [][Next]_vars

\* titles for extract_workno
WorknoFrags ==
    { <<"S", "o", "n", "a", "t", "a", " ">>, <<"O", "p", ".", " ", "2", "7">>, <<",", " ", "N", "o", ".", " ", "2">>, <<"N", "o", ".", " ", "5", " ">>, <<"K", ".", " ", "1">>,
      <<" ", "i", "n", " ", "C", " ", "m", "i", "n", "o", "r">>, <<"P", "i", "a", "n", "o", " ", "3">> }

InitWorkno ==
    InitWith(TitleBatches(Concats(WorknoFrags, MaxFrags) \cup ExampleTitles),
             {Only("worknumber")})

SpecWorkno == InitWorkno /\ [][Next]_vars

\* titles for extract_instruments
InstrumentFrags ==
    { <<"P", "i", "a", "n", "o">>, <<"s">>, <<" ", "a", "n", "d", " ">>, <<"v", "i", "o", "l", "i", "n">>, <<"M", "a", "g", "i", "c", " ", "F", "l", "u", "t", "e">>, <<"F", "l", "u", "t", "e">>,
      <<" ">> }

InitInstruments ==
    InitWith(TitleBatches(Concats(InstrumentFrags, MaxFrags)
                            \cup ExampleTitles
                            \cup { <<"S", "u", "i", "t", "e", "\n", " ", " ", " ", " ", "H", "o", "r", "n", "s", " ", "a", "n", "d", "\n", " ", " ", " ", " ", "d", "o", "u", "b", "l", "e", " ", "b", "a", "s", "s">>,
                                   <<"P", "i", "a", "n", "o", "s", " ", "a", "n", "d", " ", "p", "i", "a", "n", "o", " ", "f", "r", "o", "m", " ", "T", "h", "e", " ", "M", "a", "g", "i", "c", " ", "F", "l", "u", "t", "e">> }),
             {Only("instruments")})

SpecInstruments == InitInstruments /\ [][Next]_vars


\* titles in which one or another pattern finds nothing
AbsentFrags ==
    { <<"N", "o", "c", "t", "u", "r", "n", "e">>, <<" ", "b", "y", " ">>, <<"S", "o", "n", "a", "t", "a">>, <<" ", "5">>, <<"H", "o", "r", "n">>, <<"D", "o", "n", "'", "t">> }

InitAbsent ==
    InitWith(TitleBatches(Concats(AbsentFrags, MaxFrags)), {AllOn})

SpecAbsent == InitAbsent /\ [][Next]_vars

\* titles for extract_composition_no
NumberFrags ==
    { <<"N", "o", ".", " ", "5", " ">>, <<"S", "y", "m", "p", "h", "o", "n", "y">>, <<" ", "P", "i", "a", "n", "o">>, <<" ", "N", "o", ".", " ", "3">>, <<" ", "I", "V", " ", "i", "n", " ", "D">>,
      <<" ", "N", "o", "s", ".", " ", "3", " ", "a", "n", "d", " ", "4">>, <<" ", "V">> }

NumberTitles ==
    Concats(NumberFrags, MaxFrags)
        \cup { <<"N", "o", ".", " ", "5", " ", "S", "y", "m", "p", "h", "o", "n", "y", " ", "N", "o", ".", " ", "3", " ", "P", "i", "a", "n", "o">>, <<"S", "y", "m", "p", "h", "o", "n", "y", " ", "I", "V", " ", "i", "n", " ", "D">>,
               <<"S", "y", "m", "p", "h", "o", "n", "y", "\n", " ", " ", " ", " ", "I", "V", " ", "i", "n", " ", "D">>, <<"S", "y", "m", "p", "h", "o", "n", "y", " ", "X", "L", "I", "V", " ", "i", "n", " ", "D", " ", "P", "i", "a", "n", "o", " ", "I", "I">> }

InitNumber == InitWith(TitleBatches(NumberTitles), {Only("composition")})

SpecNumber == InitNumber /\ [][Next]_vars

\* titles for the movement forms and what follows them
MovementTailFrags ==
    { <<"A", "r", "i", "a">>, <<" ", "d", "a", " ", "c", "a", "p", "o">>, <<".">>, <<":", " ", "A", "l", "l", "e", "g", "r", "o">>, <<" ", "0", "1", ".", " ", "L", "a", "r", "g", "o">>,
      <<"A", "c", "t", " ", "1">>, <<"1", "s", "t", " ", "M", "o", "v", "e", "m", "e", "n", "t">> }

InitMovementTail ==
    InitWith(TitleBatches(Concats(MovementTailFrags, MaxFrags)
                            \cup { <<"V", "a", "r", "i", "a", "t", "i", "o", " ", "2", "!">>, <<"I", "I", ".", " ", "A", "n", "d", "a", "n", "t", "e", " ", "(", "l", "i", "v", "e", ")">>,
                                   <<"S", "e", "c", "o", "n", "d", " ", "M", "o", "v", "e", "m", "e", "n", "t", ".", ".", ".">> }),
             {Only("movement")})

SpecMovementTail == InitMovementTail /\ [][Next]_vars

\* titles for extract_nickname. A character outside ASCII is written as its
\* code point: "U+201C" and "U+201D" are the curly double quotes, "U+2018"
\* and "U+2019" the curly single quotes.
NicknameFrags ==
    { <<"S", "o", "n", "a", "t", "a", " ">>, <<"'", "M", "o", "o", "n", "l", "i", "g", "h", "t", "'">>, <<"\"", "P", "a", "t", "h", "e", "t", "i", "q", "u", "e", "\"">>, <<"U+201C", "T", "e", "m", "p", "e", "s", "t", "U+201D">>,
      <<"U+2018", "S", "t", "o", "r", "m", "U+2019">>, <<"D", "o", "n", "'", "t">>, <<" ", "i", "n", " ", "C">> }

InitNickname ==
    InitWith(TitleBatches(Concats(NicknameFrags, MaxFrags)),
             {Only("nickname")})

SpecNickname == InitNickname /\ [][Next]_vars

\* the genre terms and the instruments, as the patterns list them
GenreVocabulary ==
    { <<"S", "o", "n", "a", "t", "a">>, <<"C", "o", "n", "c", "e", "r", "t", "o">>, <<"S", "t", "r", "i", "n", "g">>, <<"Q", "u", "a", "r", "t", "e", "t">>, <<"Q", "u", "i", "n", "t", "e", "t">>,
      <<"S", "y", "m", "p", "h", "o", "n", "y">>, <<"T", "r", "i", "o">>, <<"S", "u", "i", "t", "e">>, <<"P", "r", "e", "l", "u", "d", "e">>, <<"F", "u", "g", "u", "e">>,
      <<"V", "a", "r", "i", "a", "t", "i", "o", "n", "s">>, <<"O", "v", "e", "r", "t", "u", "r", "e">>, <<"R", "o", "n", "d", "o">>, <<"F", "a", "n", "t", "a", "s", "y">>, <<"O", "p", "e", "r", "a">>,
      <<"D", "i", "v", "e", "r", "m", "e", "n", "t", "o">>, <<"S", "e", "r", "e", "n", "a", "d", "e">>, <<"B", "a", "l", "l", "e", "t">> }

InstrumentVocabulary ==
    { <<"P", "i", "a", "n", "o">>, <<"K", "e", "y", "b", "o", "a", "r", "d">>, <<"O", "r", "g", "a", "n">>, <<"G", "u", "i", "t", "a", "r">>, <<"V", "i", "o", "l", "i", "n">>, <<"V", "i", "o", "l", "a">>,
      <<"C", "e", "l", "l", "o">>, <<"D", "o", "u", "b", "l", "e", " ", "B", "a", "s", "s">>, <<"P", "i", "c", "c", "o", "l", "o">>, <<"F", "l", "u", "t", "e">>, <<"O", "b", "o", "e">>,
      <<"C", "l", "a", "r", "i", "n", "e", "t">>, <<"B", "a", "s", "s", "o", "o", "n">>, <<"T", "r", "u", "m", "p", "e", "t">>, <<"H", "o", "r", "n">>, <<"T", "r", "o", "m", "b", "o", "n", "e">>,
      <<"T", "u", "b", "a">>, <<"S", "a", "x", "o", "p", "h", "o", "n", "e">>, <<"T", "i", "m", "p", "a", "n", "i">>, <<"H", "a", "r", "p">>, <<"R", "e", "c", "o", "r", "d", "e", "r">>,
      <<"B", "a", "g", "p", "i", "p", "e", "s">>, <<"U", "k", "u", "l", "e", "l", "e">> }

\* every term in a title of one line: alone, in lower case, in a phrase
VocabularyTitles ==
    UNION { { t, LowerStr(t), <<"G", "r", "e", "a", "t", " ">> \o t \o <<" ", "i", "n", " ", "C">> } :
              t \in GenreVocabulary \cup InstrumentVocabulary}

InitVocabulary == InitWith(TitleBatches(VocabularyTitles), {AllOn})

SpecVocabulary == InitVocabulary /\ [][Next]_vars
(***************************************************************************)
(* What the claims speak of.                                               *)
(***************************************************************************)
\* the file of the current iteration, and its title
ThisFile == files[idx]

ThisTitle == files[idx].title

\* the sources of the current file in which a composer is looked for
ThisSources == {ThisFile.artist, ThisFile.title, ThisFile.album, ThisFile.path}

\* extract_composer raised on the current file
ComposerRaised ==
    pc = "raised" /\ \A c \in calls : c[2] = idx => c[1] = "extract_composer"

\* label_data is done with the k-th file: it skipped it, emitted its row,
\* or left the loop on it with an exception
DoneWith(k) == k < idx \/ (k = idx /\ pc \in {"for", "done", "raised"})

\* the rows of the table that come from the k-th file
RowsOf(k) == {r \in 1..Len(files_df) : files_df[r].filename = FileName(k)}

\* the offsets of s at which a composer's name stands
NamesIn(s) ==
    {p \in 0..Len(s) : \E a \in 1..Len(COMPOSER_PATTERN) :
                          MatchLit(s, p, COMPOSER_PATTERN[a])}

HasName(s) == s # None /\ NamesIn(s) # {}

\* the canonical forms, written out
CanonicalNames == { <<"M", "o", "z", "a", "r", "t">>, <<"B", "e", "e", "t", "h", "o", "v", "e", "n">>, <<"B", "a", "c", "h">> }

\* the canonical form of the leftmost name in s
LeftmostName(s) ==
    CHOOSE n \in CanonicalNames : MatchLit(s, Min(NamesIn(s)), n)

\* x occurs in s
IsInfix(x, s) == \E p \in 0..(Len(s) - Len(x)) : SubSeq(s, p + 1, p + Len(x)) = x

\* the row of the current file holds the composer
ComposerResolved ==
    pc \in {"composition", "nickname", "worknumber", "key", "movement",
            "instruments", "concat"}

(***************************************************************************)
(* C1: label_data emits exactly one row for every file whose artist, title *)
(* and album are not all None, also when only one or two of them are None, *)
(* and none for a file whose three fields are None; such a file reaches no *)
(* extractor.  (The files in which no composer is to be found anywhere are *)
(* left aside here: C14 is about them.)  The code raises TypeError on a    *)
(* file whose artist is None and whose title names the composer.           *)
(***************************************************************************)
C1_OneRowPerTaggedFile ==
    \A k \in 1..Len(files) :
        DoneWith(k) /\ (MetadataEmpty(files[k]) \/ HasName(files[k].path)) =>
            /\ Cardinality(RowsOf(k)) = IF MetadataEmpty(files[k]) THEN 0 ELSE 1
            /\ MetadataEmpty(files[k]) => \A c \in calls : c[2] # k

(***************************************************************************)
(* C2: with every switch enabled, the title of the "Moonlight" sonata      *)
(* gives composition "Sonata", composition_number "No. 14", key            *)
(* "C-sharp minor", work number "Op. 27, No. 2", nickname "Moonlight",     *)
(* instruments "Piano" and a movement that contains the text from          *)
(* "1st Movement" on.  The code's key is " C-sharp minor" (C8).            *)
(***************************************************************************)
MoonlightTitle ==
    <<"P", "i", "a", "n", "o", " ", "S", "o", "n", "a", "t", "a", " ", "N", "o", ".", " ", "1", "4", " ", "i", "n", " ", "C", "-", "s", "h", "a", "r", "p", " ", "m", "i", "n", "o", "r", ",", " ", "O", "p", ".", " ", "2", "7", ",", " ", "N", "o", ".", " ", "2", ",", " ", "'", "M", "o", "o", "n", "l", "i", "g", "h", "t", "'", ":", " ", "1", "s", "t", " ", "M", "o", "v", "e", "m", "e", "n", "t", ":", " ", "A", "d", "a", "g", "i", "o", " ", "s", "o", "s", "t", "e", "n", "u", "t", "o">>

C2_MoonlightRow ==
    pc = "concat" /\ args = AllOn /\ ThisTitle = MoonlightTitle =>
        /\ new_row.composition = <<"S", "o", "n", "a", "t", "a">>
        /\ new_row.composition_number = <<"N", "o", ".", " ", "1", "4">>
        /\ new_row.key = <<"C", "-", "s", "h", "a", "r", "p", " ", "m", "i", "n", "o", "r">>
        /\ new_row.workno = <<"O", "p", ".", " ", "2", "7", ",", " ", "N", "o", ".", " ", "2">>
        /\ new_row.nickname = <<"M", "o", "o", "n", "l", "i", "g", "h", "t">>
        /\ new_row.instruments = <<"P", "i", "a", "n", "o">>
        /\ IsInfix(<<"1", "s", "t", " ", "M", "o", "v", "e", "m", "e", "n", "t", ":", " ", "A", "d", "a", "g", "i", "o", " ", "s", "o", "s", "t", "e", "n", "u", "t", "o">>, new_row.movement)

C4_CanonicalComposer ==
    ComposerResolved =>
        /\ new_row.composer \in CanonicalNames
        /\ \A n \in CanonicalNames :
              (\A s \in ThisSources : s # None =>
                  \A p \in NamesIn(s) : MatchLit(s, p, n))
                 => new_row.composer = n

C4_UpperCaseBach ==
    /\ pc = "concat"
    /\ ThisFile.artist = <<"J", ".", "S", ".", " ", "B", "A", "C", "H">>
    /\ new_row.composer = <<"B", "a", "c", "h">>

(***************************************************************************)
(* C5: what extract_composition returns is the genre terms found in the    *)
(* title, capitalized and joined by ", ": every term once, however its     *)
(* occurrences are cased, and in the order of the terms' first             *)
(* occurrences.                                                            *)
(***************************************************************************)
\* the matches of the genre vocabulary in s, and the term each one is
CompositionHits(s) == re_finditer(CompositionEnds(s))

TermOf(s, m) == FirstAlt(s, m.start, COMPOSITION_PATTERN)

\* the terms of the matches, left to right
TermSeq(s) ==
    LET hits == CompositionHits(s)
    IN [k \in 1..Len(hits) |-> TermOf(s, hits[k])]

TermsFound(s) == LET terms == TermSeq(s) IN {terms[k] : k \in 1..Len(terms)}

\* the first of the matches that is an occurrence of term a
FirstSeen(terms, a) == Min({k \in 1..Len(terms) : terms[k] = a})

\* the terms found, each once, by first occurrence
TermsInOrder(s) ==
    LET terms == TermSeq(s)
        found == {terms[k] : k \in 1..Len(terms)}
    IN [k \in 1..Cardinality(found) |->
           Capitalize(COMPOSITION_PATTERN[
               CHOOSE a \in found :
                   Cardinality({b \in found : FirstSeen(terms, b)
                                                 < FirstSeen(terms, a)}) = k - 1])]

C5_TermsOnceInOrder ==
    pc = "concat" /\ args.composition =>
        new_row.composition = Join(TermsInOrder(ThisTitle), <<",", " ">>)

C5_RepeatedTerm ==
    /\ pc = "concat" /\ args.composition
    /\ Cardinality(TermsFound(ThisTitle)) = 2
    /\ Len(CompositionHits(ThisTitle)) = 3
    /\ IsInfix(<<"S", "O", "N", "A", "T", "A">>, ThisTitle) /\ IsInfix(<<"S", "o", "n", "a", "t", "a">>, ThisTitle)
    /\ new_row.composition = <<"S", "t", "r", "i", "n", "g", ",", " ", "S", "o", "n", "a", "t", "a">>

(***************************************************************************)
(* C6: in a title with two or more catalogue tokens, extract_movement      *)
(* looks for the two-digit form only after the end of the last token: a    *)
(* two-digit form after the last token is returned (the first of them, to  *)
(* the end of the line), and without one the result is no two-digit form,  *)
(* whatever stands between the tokens.                                     *)
(***************************************************************************)
CatalogueTokens(s) == re_finditer(WorknumberEnds(s))

LastTokenEnd(s) ==
    Max({CatalogueTokens(s)[k].end : k \in 1..Len(CatalogueTokens(s))})

\* the offsets from `from` on at which a two-digit form starts
NumericFormsFrom(s, from) ==
    {p \in from..Len(s) : MovementNumberMatchAt(s, p) >= 0}

StartsWithNumericForm(v) == v # None /\ MovementNumberMatchAt(v, 0) >= 0

C6_WindowAfterLastToken ==
    pc = "concat" /\ args.movement /\ Len(CatalogueTokens(ThisTitle)) >= 2 =>
        LET after == NumericFormsFrom(ThisTitle, LastTokenEnd(ThisTitle))
        IN IF after # {}
           THEN new_row.movement =
                    SubSeq(ThisTitle, Min(after) + 1,
                           MovementNumberMatchAt(ThisTitle, Min(after)))
           ELSE ~StartsWithNumericForm(new_row.movement)

C6_FormBetweenTokens ==
    /\ pc = "concat" /\ args.movement
    /\ Len(CatalogueTokens(ThisTitle)) >= 2
    /\ \E p \in NumericFormsFrom(ThisTitle, CatalogueTokens(ThisTitle)[1].end) :
          p < LastTokenEnd(ThisTitle)
    /\ NumericFormsFrom(ThisTitle, LastTokenEnd(ThisTitle)) # {}
    /\ new_row.movement = <<"1", "2", " ", "-", " ", "L", "a", "r", "g", "o">>

(***************************************************************************)
(* C7: extract_workno returns None for a title without catalogue token;    *)
(* otherwise it takes the first catalogue token and returns it, followed   *)
(* by ", " and the first "No. N" that starts after the token's end when    *)
(* there is one.  "Sonata Op. 27, No. 2 in C minor" gives "Op. 27, No. 2", *)
(* and a "No. N" before the token is never appended.                       *)
(***************************************************************************)
TokenOffsets(s) == {p \in 0..Len(s) : WorknumberMatchAt(s, p) >= 0}

NumberOffsets(s) == {q \in 0..Len(s) : WorknumberNumberMatchAt(s, q) >= 0}

C7_FirstTokenThenNumber ==
    pc = "concat" /\ args.worknumber =>
        /\ IF TokenOffsets(ThisTitle) = {} THEN new_row.workno = None
           ELSE LET p == Min(TokenOffsets(ThisTitle))
                    e == WorknumberMatchAt(ThisTitle, p)
                    token == SubSeq(ThisTitle, p + 1, e)
                    later == {q \in NumberOffsets(ThisTitle) : q >= e}
                IN IF later = {} THEN new_row.workno = token
                   ELSE new_row.workno =
                            token \o <<",", " ">>
                              \o SubSeq(ThisTitle, Min(later) + 1,
                                        WorknumberNumberMatchAt(ThisTitle,
                                                                Min(later)))
        /\ ThisTitle = <<"S", "o", "n", "a", "t", "a", " ", "O", "p", ".", " ", "2", "7", ",", " ", "N", "o", ".", " ", "2", " ", "i", "n", " ", "C", " ", "m", "i", "n", "o", "r">> =>
               new_row.workno = <<"O", "p", ".", " ", "2", "7", ",", " ", "N", "o", ".", " ", "2">>

C7_NumberBeforeToken ==
    /\ pc = "concat" /\ args.worknumber
    /\ TokenOffsets(ThisTitle) # {}
    /\ \A q \in NumberOffsets(ThisTitle) : q < Min(TokenOffsets(ThisTitle))
    /\ NumberOffsets(ThisTitle) # {}
    /\ new_row.workno = <<"O", "p", ".", " ", "2", "7">>

(***************************************************************************)
(* C8: extract_key of "Sonata No. 14 in C-sharp minor" is "C-sharp minor", *)
(* without the word "in" and without leading whitespace.  The code's       *)
(* pattern takes the whitespace after "in" into the match.                 *)
(***************************************************************************)
C8_KeyWithoutLeadingSpace ==
    /\ pc \in {"movement", "instruments", "concat"}
    /\ args.key
    /\ ThisTitle = <<"S", "o", "n", "a", "t", "a", " ", "N", "o", ".", " ", "1", "4", " ", "i", "n", " ", "C", "-", "s", "h", "a", "r", "p", " ", "m", "i", "n", "o", "r">>
    => new_row.key = <<"C", "-", "s", "h", "a", "r", "p", " ", "m", "i", "n", "o", "r">>

(***************************************************************************)
(* C9: what extract_instruments returns is the instruments named in the    *)
(* title, capitalized and joined by ", ", every one once and in the order  *)
(* of first occurrence; a plural gives the singular name, and "Flute"      *)
(* after "Magic" and a whitespace is no occurrence.  "Sonata for Piano and *)
(* Violin" gives "Piano, Violin".                                          *)
(***************************************************************************)
\* the a-th instrument of the vocabulary stands at offset p of s, as a word
\* of its own, in the singular or the plural
InstrumentStandsAt(s, p, a) ==
    LET e == p + Len(INSTRUMENT_NAMES[a])
    IN /\ MatchLit(s, p, INSTRUMENT_NAMES[a])
       /\ WordBoundary(s, p)
       /\ \/ WordBoundary(s, e)
          \/ e < Len(s) /\ s[e + 1] \in {"s", "S"} /\ WordBoundary(s, e + 1)
       /\ INSTRUMENT_NAMES[a] = <<"F", "l", "u", "t", "e">> =>
              ~(p >= 6 /\ MatchLit(s, p - 6, <<"M", "a", "g", "i", "c">>) /\ IsSpace(s[p]))

InstrumentsNamed(s) ==
    {a \in 1..Len(INSTRUMENT_NAMES) :
        \E p \in 0..Len(s) : InstrumentStandsAt(s, p, a)}

FirstNamedAt(s, a) == Min({p \in 0..Len(s) : InstrumentStandsAt(s, p, a)})

InstrumentsInOrder(s) ==
    [k \in 1..Cardinality(InstrumentsNamed(s)) |->
        Capitalize(INSTRUMENT_NAMES[
            CHOOSE a \in InstrumentsNamed(s) :
                Cardinality({b \in InstrumentsNamed(s) :
                                FirstNamedAt(s, b) < FirstNamedAt(s, a)}) = k - 1])]

C9_InstrumentsOnceInOrder ==
    pc = "concat" /\ args.instruments =>
        /\ new_row.instruments = Join(InstrumentsInOrder(ThisTitle), <<",", " ">>)
        /\ ThisTitle = <<"S", "o", "n", "a", "t", "a", " ", "f", "o", "r", " ", "P", "i", "a", "n", "o", " ", "a", "n", "d", " ", "V", "i", "o", "l", "i", "n">> =>
               new_row.instruments = <<"P", "i", "a", "n", "o", ",", " ", "V", "i", "o", "l", "i", "n">>

C9_PluralAndMagicFlute ==
    /\ pc = "concat" /\ args.instruments
    /\ IsInfix(<<"M", "a", "g", "i", "c", " ", "F", "l", "u", "t", "e">>, ThisTitle)
    /\ IsInfix(<<"P", "i", "a", "n", "o", "s">>, ThisTitle)
    /\ new_row.instruments = <<"P", "i", "a", "n", "o">>

(***************************************************************************)
(* C10: in the table label_data returns, two rows have the same composer   *)
(* code exactly when they have the same composer, every code is a natural  *)
(* number, and with k different composers the codes are 0 .. k-1.          *)
(***************************************************************************)
C10_CodesInjectiveAndDense ==
    pc = "done" =>
        LET rows == 1..Len(files_df)
            composers == {files_df[r].composer : r \in rows}
        IN /\ \A r1, r2 \in rows :
                 (files_df[r1].composer = files_df[r2].composer)
                    <=> (files_df[r1].composer_enc = files_df[r2].composer_enc)
           /\ \A r \in rows : files_df[r].composer_enc \in Nat
           /\ {files_df[r].composer_enc : r \in rows}
                 = 0..(Cardinality(composers) - 1)

C10_SharedAndDistinctComposers ==
    /\ pc = "done"
    /\ Len(files_df) = 3
    /\ files_df[1].composer = files_df[3].composer
    /\ files_df[1].composer # files_df[2].composer
    /\ files_df[1].composer_enc = 1
    /\ files_df[2].composer_enc = 0

(***************************************************************************)
(* C11: label_data has two phases. The label encoder runs only when every  *)
(* file has been fetched and either skipped or turned into a row, it runs  *)
(* once (nothing of label_data runs after it), and no row has a composer   *)
(* code while a file is still to be processed.                             *)
(***************************************************************************)
Encoded == <<"fit_transform", 0>> \in calls

HasCode(row) == "composer_enc" \in DOMAIN row

\* every file has been fetched and skipped or turned into a row
AllProcessed ==
    /\ idx = Len(files)
    /\ pc \in {"for", "done"}
    /\ \A k \in 1..Len(files) :
          Cardinality(RowsOf(k)) = IF MetadataEmpty(files[k]) THEN 0 ELSE 1

C11_TwoPhases ==
    /\ [](/\ Encoded <=> pc = "done"
          /\ Encoded => AllProcessed
          /\ (\E r \in 1..Len(files_df) : HasCode(files_df[r])) =>
                 Encoded /\ AllProcessed
          /\ pc = "done" => \A r \in 1..Len(files_df) : HasCode(files_df[r]))
    /\ [][~Encoded]_vars

C11_EncodedAfterSkipAndRows ==
    /\ pc = "done"
    /\ Len(files) = 3
    /\ MetadataEmpty(files[2])
    /\ Len(files_df) = 2
    /\ \A r \in 1..2 : HasCode(files_df[r])

(***************************************************************************)
(* C12: under every combination of the six switches a row has path,        *)
(* filename, title and composer, and has an optional field exactly when    *)
(* the field's switch is on (composition and composition_number go with    *)
(* the composition switch); the extractor of a switch that is off is not   *)
(* called for any file; with every switch off the returned rows have the   *)
(* four mandatory fields and the composer code, nothing else.              *)
(***************************************************************************)
MandatoryFields == {"path", "filename", "title", "composer"}

SwitchFields ==
    [composition |-> {"composition", "composition_number"},
     nickname |-> {"nickname"}, worknumber |-> {"workno"}, key |-> {"key"},
     movement |-> {"movement"}, instruments |-> {"instruments"}]

SwitchExtractors ==
    [composition |-> {"extract_composition", "extract_composition_no"},
     nickname |-> {"extract_nickname"}, worknumber |-> {"extract_workno"},
     key |-> {"extract_key"}, movement |-> {"extract_movement"},
     instruments |-> {"extract_instruments"}]

EnabledFields == UNION {SwitchFields[x] : x \in {y \in DOMAIN args : args[y]}}

\* the fields of the rows of the table, before and after the encoder
RowFields ==
    MandatoryFields \cup EnabledFields
        \cup (IF pc = "done" THEN {"composer_enc"} ELSE {})

C12_FieldsFollowSwitches ==
    /\ \A r \in 1..Len(files_df) : DOMAIN files_df[r] = RowFields
    /\ pc = "concat" => DOMAIN new_row = RowFields
    /\ \A x \in DOMAIN args : \A c \in calls :
          c[1] \in SwitchExtractors[x] => args[x]
    /\ \A x \in DOMAIN args : \A k \in 1..Len(files) :
          args[x] /\ RowsOf(k) # {} =>
              \A e \in SwitchExtractors[x] : <<e, k>> \in calls
    /\ pc = "done" /\ args = AllOff =>
          \A r \in 1..Len(files_df) :
              DOMAIN files_df[r] = MandatoryFields \cup {"composer_enc"}

C12_KeyAndInstrumentsOnly ==
    /\ pc = "done"
    /\ args = [AllOff EXCEPT !.key = TRUE, !.instruments = TRUE]
    /\ Len(files_df) = 1
    /\ DOMAIN files_df[1] =
           MandatoryFields \cup {"key", "instruments", "composer_enc"}
    /\ calls = {<<"extract_composer", 1>>, <<"extract_key", 1>>,
                <<"extract_instruments", 1>>, <<"fit_transform", 0>>}

(***************************************************************************)
(* C13: label_data is deterministic and keeps nothing from one call to     *)
(* the next: what a call returns (the rows, their order, the composer      *)
(* codes) or raises is a function of the files and the switches alone, so  *)
(* two calls on the same files with the same switches end the same.        *)
(***************************************************************************)
C13_ResultIsFunctionOfInput ==
    /\ pc = "done" => label_data(files, args) = Return(files_df)
    /\ pc = "raised" => label_data(files, args) = Raise(exc)

C13_ThreeRowsEverySwitch ==
    /\ pc = "done"
    /\ args = AllOn
    /\ Len(files_df) = 3
    /\ files_df[1].composer # files_df[2].composer
    /\ files_df[1].composer = files_df[3].composer
    /\ label_data(files, args) = Return(files_df)

(***************************************************************************)
(* C14: a file in whose artist, title, album and path no composer's name   *)
(* occurs costs its own row and nothing else: when label_data has ended,   *)
(* every other file with metadata has its row in the table, with a         *)
(* composer code. (Runs that end with the TypeError of an absent field are *)
(* left aside: they are another failure.)                                  *)
(***************************************************************************)
NoComposerAnywhere(file) ==
    \A s \in {file.artist, file.title, file.album, file.path} : ~HasName(s)

C14_FailureConfinedToRecord ==
    pc \in {"done", "raised"} /\ exc # "TypeError" =>
        \A k \in 1..Len(files) :
            IF NoComposerAnywhere(files[k]) THEN RowsOf(k) = {}
            ELSE MetadataEmpty(files[k])
                   \/ \E r \in RowsOf(k) : HasCode(files_df[r])

(***************************************************************************)
(* C15: an optional extractor whose pattern matches nowhere in the title   *)
(* returns None and does not raise; extract_composition and                *)
(* extract_instruments too return None, not "", for a title without a      *)
(* term of their vocabulary.                                               *)
(***************************************************************************)
Nowhere(ends) == \A p \in DOMAIN ends : ends[p] < 0

C15_NoMatchGivesNone ==
    pc = "concat" =>
        /\ args.composition /\ Nowhere(CompositionEnds(ThisTitle)) =>
               new_row.composition = None
        /\ args.composition /\ Nowhere(CompositionNumberEnds(ThisTitle)) =>
               new_row.composition_number = None
        /\ args.nickname /\ Nowhere(NicknameEnds(ThisTitle)) =>
               new_row.nickname = None
        /\ args.worknumber /\ Nowhere(WorknumberEnds(ThisTitle)) =>
               new_row.workno = None
        /\ args.key /\ Nowhere(KeyEnds(ThisTitle)) => new_row.key = None
        /\ args.movement /\ Nowhere(MovementEnds(ThisTitle))
                         /\ Nowhere(MovementNumberEnds(ThisTitle)) =>
               new_row.movement = None
        /\ args.instruments /\ Nowhere(InstrumentEnds(ThisTitle)) =>
               new_row.instruments = None

(***************************************************************************)
(* C16: extract_composition_no returns the first composition-number token  *)
(* that starts at or after an offset of the title: the end of the first    *)
(* genre term if the title has one, else the end of the first instrument   *)
(* if it has one, else 0. A token before the offset is not returned        *)
(* ("No. 5 Symphony" gives None), and the instrument counts for nothing    *)
(* when there is a genre term.                                             *)
(***************************************************************************)
StartOffset(s) ==
    LET genres == re_finditer(CompositionEnds(s))
        instruments == re_finditer(InstrumentEnds(s))
    IN IF genres # <<>> THEN genres[1].end
       ELSE IF instruments # <<>> THEN instruments[1].end
       ELSE 0

\* the offsets from q on at which a composition-number token starts
NumberTokensFrom(s, q) ==
    {p \in q..Len(s) : CompositionNumberMatchAt(s, p) >= 0}

FirstNumberTokenFrom(s, q) ==
    IF NumberTokensFrom(s, q) = {} THEN None
    ELSE LET p == Min(NumberTokensFrom(s, q))
         IN SubSeq(s, p + 1, CompositionNumberMatchAt(s, p))

C16_NumberAfterStartOffset ==
    pc = "concat" /\ args.composition =>
        /\ new_row.composition_number =
               FirstNumberTokenFrom(ThisTitle, StartOffset(ThisTitle))
        /\ ThisTitle = <<"N", "o", ".", " ", "5", " ", "S", "y", "m", "p", "h", "o", "n", "y">> =>
               new_row.composition_number = None

C16_TokenBeforeGenreAndInstrumentAfter ==
    /\ pc = "concat" /\ args.composition
    /\ ThisTitle = <<"N", "o", ".", " ", "5", " ", "S", "y", "m", "p", "h", "o", "n", "y", " ", "N", "o", ".", " ", "3", " ", "P", "i", "a", "n", "o">>
    /\ NumberTokensFrom(ThisTitle, 0) = {0, 15}
    /\ StartOffset(ThisTitle) = 14
    /\ new_row.composition_number = <<"N", "o", ".", " ", "3">>

(***************************************************************************)
(* C17: for a title of one line, extract_composition_no takes a Roman      *)
(* numeral for a composition number exactly when the word "in" follows it: *)
(* if the title has, from the start offset on, such a numeral and no       *)
(* "No."/"Nos." form, the numeral is returned ("Symphony IV in D" gives    *)
(* "IV"), and a Roman numeral that "in" does not follow is not returned.   *)
(***************************************************************************)
SingleLine(s) == \A k \in 1..Len(s) : s[k] # "\n"

\* the end of the Roman numeral at p that a blank and "in" follow; -1: none
RomanBeforeIn(s, p) ==
    LET ends == {p + Len(ROMAN_TENS[a]) + Len(ROMAN_UNITS[b]) :
                    <<a, b>> \in
                      {ab \in (1..Len(ROMAN_TENS)) \X (1..Len(ROMAN_UNITS)) :
                         /\ Len(ROMAN_TENS[ab[1]]) + Len(ROMAN_UNITS[ab[2]]) > 0
                         /\ MatchLit(s, p, ROMAN_TENS[ab[1]])
                         /\ MatchLit(s, p + Len(ROMAN_TENS[ab[1]]),
                                     ROMAN_UNITS[ab[2]])
                         /\ LET f == p + Len(ROMAN_TENS[ab[1]])
                                       + Len(ROMAN_UNITS[ab[2]])
                            IN /\ f < Len(s)
                               /\ IsSpace(s[f + 1])
                               /\ MatchLit(s, f + 1, <<"i", "n">>)}}
    IN IF ends # {} THEN Max(ends) ELSE -1

RomansFrom(s, q) == {p \in q..Len(s) : RomanBeforeIn(s, p) > p}

\* the offsets from q on at which a "No. N" or "Nos. N and M" form starts
NoFormsFrom(s, q) ==
    {p \in q..Len(s) :
        WorknumberNumberMatchAt(s, p) >= 0 \/ NosAndMatchAt(s, p) >= 0}

C17_RomanNumeralBeforeIn ==
    pc = "concat" /\ args.composition /\ SingleLine(ThisTitle) =>
        LET q == StartOffset(ThisTitle)
            romans == RomansFrom(ThisTitle, q)
        IN /\ NoFormsFrom(ThisTitle, q) = {} /\ romans # {} =>
                 new_row.composition_number =
                     SubSeq(ThisTitle, Min(romans) + 1,
                            RomanBeforeIn(ThisTitle, Min(romans)))
           /\ NoFormsFrom(ThisTitle, q) = {} /\ romans = {} =>
                 new_row.composition_number = None
           /\ ThisTitle = <<"S", "y", "m", "p", "h", "o", "n", "y", " ", "I", "V", " ", "i", "n", " ", "D">> =>
                 new_row.composition_number = <<"I", "V">>

(***************************************************************************)
(* C18: extract_movement has two phases, the first before the second. A    *)
(* two-digit numeric form in the window after the last catalogue token is  *)
(* returned, even when a sub-pattern of the fallback matches earlier in    *)
(* the title. Only without one is the fallback searched, in the whole      *)
(* title, so that a match before the last catalogue token is returned.     *)
(* None is returned only when both find nothing.                           *)
(***************************************************************************)
WindowStart(s) == IF CatalogueTokens(s) = <<>> THEN 0 ELSE LastTokenEnd(s)

\* the offsets of the title at which a sub-pattern of the fallback matches
FallbackStarts(s) == {p \in 0..Len(s) : MovementMatchAt(s, p) >= 0}

C18_NumericFormBeforeFallback ==
    pc = "concat" /\ args.movement =>
        LET numeric == NumericFormsFrom(ThisTitle, WindowStart(ThisTitle))
            fallback == FallbackStarts(ThisTitle)
        IN new_row.movement =
               IF numeric # {}
               THEN SubSeq(ThisTitle, Min(numeric) + 1,
                           MovementNumberMatchAt(ThisTitle, Min(numeric)))
               ELSE IF fallback # {}
               THEN SubSeq(ThisTitle, Min(fallback) + 1,
                           MovementMatchAt(ThisTitle, Min(fallback)))
               ELSE None

C18_FallbackEarlierThanNumericForm ==
    /\ pc = "concat" /\ args.movement
    /\ CatalogueTokens(ThisTitle) # <<>>
    /\ FallbackStarts(ThisTitle) # {}
    /\ Min(FallbackStarts(ThisTitle)) < WindowStart(ThisTitle)
    /\ NumericFormsFrom(ThisTitle, WindowStart(ThisTitle)) # {}
    /\ new_row.movement = <<"0", "1", ".", " ", "A", "l", "l", "e", "g", "r", "o">>

(***************************************************************************)
(* C19: what extract_movement returns for a title of one line is a suffix  *)
(* of the title: whichever form is found, the match runs to the end of     *)
(* the title, the punctuation at the end included.                         *)
(***************************************************************************)
IsSuffix(x, s) ==
    Len(x) <= Len(s) /\ SubSeq(s, Len(s) - Len(x) + 1, Len(s)) = x

C19_MovementRunsToEndOfTitle ==
    pc = "concat" /\ args.movement /\ SingleLine(ThisTitle)
                  /\ new_row.movement # None =>
        IsSuffix(new_row.movement, ThisTitle)

(***************************************************************************)
(* C20: extract_nickname returns the text between the first pair of        *)
(* quotes of the title, as it is written: the quotes may be straight or    *)
(* curly, double or single, the closing quote is of the kind of the        *)
(* opening one, an apostrophe with no partner opens nothing, and None is   *)
(* returned for a title without a quoted text.                             *)
(***************************************************************************)
\* the kinds of quotes: the opening and the closing character
QuoteKinds ==
    {<<"\"", "\"">>, <<"'", "'">>, <<"U+201C", "U+201D">>,
     <<"U+2018", "U+2019">>}

\* the closing quotes that may end a text that starts at offset p, behind
\* an opening quote
ClosingFrom(s, p) ==
    {e \in p..(Len(s) - 1) :
        p > 0 /\ \E kind \in QuoteKinds : s[p] = kind[1] /\ s[e + 1] = kind[2]}

\* the offsets at which a quoted text starts
QuotedStarts(s) == {p \in 1..Len(s) : ClosingFrom(s, p) # {}}

C20_FirstQuotedText ==
    pc = "concat" /\ args.nickname =>
        new_row.nickname =
            IF QuotedStarts(ThisTitle) = {} THEN None
            ELSE LET p == Min(QuotedStarts(ThisTitle))
                 IN SubSeq(ThisTitle, p + 1, Min(ClosingFrom(ThisTitle, p)))

(***************************************************************************)
(* C21: while label_data extracts, the only state that rows share and      *)
(* that changes is the table, which gets the finished row appended: no     *)
(* step before the encoder changes the list of columns or changes the      *)
(* table in another way; and the fields of a file's row are those of the   *)
(* file, its path and the switches alone, whatever files come before or    *)
(* after it.                                                               *)
(***************************************************************************)
\* every row of the table is the row of its file taken alone
RowsOfFilesAlone ==
    \A k \in 1..Len(files) : \A r \in RowsOf(k) :
        files_df[r] = RowOf(files[k], args).value

\* a step of the extraction phase appends the finished row or leaves the
\* table as it is
TableOnlyAppended ==
    pc' # "done" =>
        \/ files_df' = files_df
        \/ pc = "concat" /\ files_df' = Append(files_df, new_row)

C21_OnlyTheTableChanges ==
    /\ [](pc # "done" => RowsOfFilesAlone)
    /\ [][TableOnlyAppended /\ (pc' # "done" => columns' = columns)]_vars

(***************************************************************************)
(* C22: every genre term of COMPOSITION_PATTERN is recognised alike: when  *)
(* a title of one line has the term as a word, the capitalized term is     *)
(* one of the terms extract_composition returns. The same holds for every  *)
(* instrument of INSTRUMENT_PATTERN, "Double Bass" and "Horn" among them,  *)
(* and extract_instruments.                                                *)
(***************************************************************************)
\* t stands in s as a word, in whatever case
ContainsWord(s, t) ==
    \E p \in 0..(Len(s) - Len(t)) :
        /\ MatchLit(s, p, t)
        /\ WordBoundary(s, p)
        /\ WordBoundary(s, p + Len(t))

\* x is one of the items of a list joined by ", "
IsItem(x, joined) ==
    \E p \in 0..(Len(joined) - Len(x)) :
        /\ SubSeq(joined, p + 1, p + Len(x)) = x
        /\ p = 0 \/ (p >= 2 /\ SubSeq(joined, p - 1, p) = <<",", " ">>)
        /\ \/ p + Len(x) = Len(joined)
           \/ /\ p + Len(x) + 2 <= Len(joined)
              /\ SubSeq(joined, p + Len(x) + 1, p + Len(x) + 2) = <<",", " ">>

C22_EveryTermRecognised ==
    pc = "concat" /\ args.composition /\ args.instruments
                  /\ SingleLine(ThisTitle) =>
        /\ \A t \in GenreVocabulary :
              ContainsWord(ThisTitle, t) =>
                  IsItem(Capitalize(t), new_row.composition)
        /\ \A t \in InstrumentVocabulary :
              ContainsWord(ThisTitle, t) =>
                  IsItem(Capitalize(t), new_row.instruments)

(***************************************************************************)
(* C23: the code of a composer depends on the set of the composers of the  *)
(* batch alone: label_data on the same files in another order, or with     *)
(* one of them twice, gives every composer the code it has now; and the    *)
(* codes follow the lexical order of the composers.                        *)
(***************************************************************************)
\* the files with the i-th and the j-th exchanged. Every order of the files
\* is reached by exchanges, and the batches checked are all the sequences
\* of the tags, so what holds of one exchange of every batch holds of
\* every permutation.
Exchanged(fs, i, j) ==
    [k \in 1..Len(fs) |-> IF k = i THEN fs[j] ELSE IF k = j THEN fs[i] ELSE fs[k]]

\* the code of every composer of a table
CodeMap(df) == {<<df[r].composer, df[r].composer_enc>> : r \in 1..Len(df)}

C23_CodesOfTheComposerSet ==
    pc = "done" =>
        /\ \A i, j \in 1..Len(files) :
              i < j =>
                  CodeMap(label_data(Exchanged(files, i, j), args).value)
                      = CodeMap(files_df)
        /\ \A k \in 1..Len(files) :
              CodeMap(label_data(Append(files, files[k]), args).value)
                  = CodeMap(files_df)
        /\ \A r, q \in 1..Len(files_df) :
              StrLess(files_df[r].composer, files_df[q].composer) =>
                  files_df[r].composer_enc < files_df[q].composer_enc

C23_ThreeComposersInReverseOrder ==
    /\ pc = "done"
    /\ [r \in 1..Len(files_df) |-> files_df[r].composer]
           = << <<"M", "o", "z", "a", "r", "t">>, <<"B", "e", "e", "t", "h", "o", "v", "e", "n">>, <<"B", "a", "c", "h">> >>
    /\ [r \in 1..Len(files_df) |-> files_df[r].composer_enc] = <<2, 1, 0>>
    /\ CodeMap(label_data(Exchanged(files, 1, 3), args).value)
           = CodeMap(files_df)

=============================================================================
